---- MODULE Spec2Model ----
(***************************************************************************)
(* Model of the trace analyzer (src/src/analyzer.rs) together with the     *)
(* textual decoder (lexer.rs, normalizer.rs, parser.rs) and the binary     *)
(* decoder (analyzer.rs, try_parse_event).                                 *)
(*                                                                         *)
(* One run of analyze_trace is a behaviour: Open selects the decoder, the  *)
(* decoder loop consumes one line / one 8-byte record per step, Finish     *)
(* produces the result.                                                    *)
(***************************************************************************)
EXTENDS Integers, Sequences, FiniteSets, TLC

(***************************************************************************)
(* Bounds of the model                                                     *)
(***************************************************************************)
\* number of lines / records a run may consume
MaxRows == 3

\* thread ids and lock ids that occur in textual traces
Threads == {6, 7}
Locks == {8, 9}

\* bit positions that vary in the acquire / release records of binary traces
RawBits == {0, 4, 14}

(***************************************************************************)
(* Option<T>: None is <<>>, Some(x) is <<x>>                               *)
(***************************************************************************)
None == <<>>
Some(x) == <<x>>
is_some(o) == o # <<>>
unwrap(o) == o[1]

(***************************************************************************)
(* Tokens (lexer.rs).  A token is [t |-> kind, v |-> payload]; kinds       *)
(* without payload carry v = 0.                                            *)
(***************************************************************************)
Tok(kind) == [t |-> kind, v |-> 0]
TokV(kind, val) == [t |-> kind, v |-> val]

\* a lexeme no token pattern matches (e.g. '*'): logos yields Err for it
Invalid == Tok("Invalid")

\* Token::lexer(&source).collect::<Result<Vec<Token>, LexerError>>()
LexOk(source) == \A i \in 1..Len(source) : source[i] # Invalid

(***************************************************************************)
(* normalize_tokens (normalizer.rs)                                        *)
(***************************************************************************)
OperatorKinds == {"Write", "Read", "Fork", "Join", "Request", "Acquire", "Release"}

\* variant of RetagKind that takes the operand of a request for a thread
RetagKind_RequestThread(op) ==
    CASE op \in {"Write", "Read"} -> "MemoryLocation"
      [] op \in {"Fork", "Join", "Request"} -> "ThreadIdentifier"
      [] OTHER -> "LockIdentifier"

\* the tag a bare integer operand gets after the given operator
RetagKind(op) ==
    CASE op \in {"Write", "Read"} -> "MemoryLocation"
      [] op \in {"Fork", "Join"} -> "ThreadIdentifier"
      [] OTHER -> "LockIdentifier"

RECURSIVE NormalizeFrom(_, _, _)
\* the while-let loop; i is the iterator position, out the tokens pushed so
\* far.  The result is [panic, tokens]; panic is the unwrap() of an
\* exhausted iterator.
NormalizeFrom(tokens, i, out) ==
    IF i > Len(tokens) THEN [panic |-> FALSE, tokens |-> out]
    ELSE IF tokens[i].t \in OperatorKinds
         THEN IF i + 2 > Len(tokens)
              THEN [panic |-> TRUE, tokens |-> <<>>]
              ELSE LET token == tokens[i + 2]
                       head == out \o <<Tok(tokens[i].t), Tok("LeftParenthesis")>>
                   IN  NormalizeFrom(tokens, i + 3,
                           IF token.t = "LineNumber"
                           THEN Append(head, TokV(RetagKind(tokens[i].t), token.v))
                           ELSE head)
         ELSE NormalizeFrom(tokens, i + 1, Append(out, tokens[i]))

normalize_tokens(tokens) == NormalizeFrom(tokens, 1, <<>>)

\* tokenize_source: [status, tokens], status in {"ok", "lexer", "panic"}
tokenize_source(source, normalize) ==
    IF ~LexOk(source) THEN [status |-> "lexer", tokens |-> <<>>]
    ELSE IF normalize
         THEN LET n == normalize_tokens(source)
              IN  IF n.panic THEN [status |-> "panic", tokens |-> <<>>]
                  ELSE [status |-> "ok", tokens |-> n.tokens]
         ELSE [status |-> "ok", tokens |-> source]

(***************************************************************************)
(* parse_event (parser.rs): the grammar is one fixed sequence of eight     *)
(* token positions.                                                        *)
(***************************************************************************)
OperationKinds == {"Read", "Write", "Acquire", "Request", "Release", "Fork", "Join"}
OperandKinds == {"MemoryLocation", "LockIdentifier", "ThreadIdentifier"}

\* variant of ExpectedAt that lets the operand be a bare integer as well
ExpectedAt_BareOperand(p) ==
    CASE p = 0 -> {"ThreadIdentifier"}
      [] p = 1 -> {"Pipe"}
      [] p = 2 -> OperationKinds
      [] p = 3 -> {"LeftParenthesis"}
      [] p = 4 -> OperandKinds \cup {"LineNumber"}
      [] p = 5 -> {"RightParenthesis"}
      [] p = 6 -> {"Pipe"}
      [] p = 7 -> {"LineNumber"}
      [] OTHER -> {"EOF"}

\* the token kinds the grammar accepts at 0-based position p
ExpectedAt(p) ==
    CASE p = 0 -> {"ThreadIdentifier"}
      [] p = 1 -> {"Pipe"}
      [] p = 2 -> OperationKinds
      [] p = 3 -> {"LeftParenthesis"}
      [] p = 4 -> OperandKinds
      [] p = 5 -> {"RightParenthesis"}
      [] p = 6 -> {"Pipe"}
      [] p = 7 -> {"LineNumber"}
      [] OTHER -> {"EOF"}

\* does the token sequence fit the grammar at 0-based position p
FitsAt(tokens, p) ==
    IF p < 8 THEN p < Len(tokens) /\ tokens[p + 1].t \in ExpectedAt(p)
    ELSE p >= Len(tokens)

\* 0-based index of the first position that does not fit (9 if all fit)
FirstMisfit(tokens) ==
    IF \A p \in 0..8 : FitsAt(tokens, p) THEN 9
    ELSE CHOOSE p \in 0..8 : ~FitsAt(tokens, p) /\ \A q \in 0..(p - 1) : FitsAt(tokens, q)

parse_event(tokens) ==
    LET m == FirstMisfit(tokens)
    IN  IF m = 9
        THEN [ok |-> TRUE,
              event |-> [thread_identifier |-> tokens[1].v,
                         operation |-> tokens[3].t,
                         operand |-> [tag |-> tokens[5].t, id |-> Some(tokens[5].v)],
                         loc |-> tokens[8].v]]
        ELSE [ok |-> FALSE, location |-> m, expected |-> ExpectedAt(m)]

(***************************************************************************)
(* Binary decoder (analyzer.rs 245-370).  A raw 64-bit record is the set   *)
(* of its set bit positions; masks are sets of bit positions.              *)
(***************************************************************************)
NUM_THREAD_BITS == 10
THREAD_BITS_OFFSET == 0
NUM_OPERATION_BITS == 4
OPERATION_BITS_OFFSET == THREAD_BITS_OFFSET
NUM_OPERAND_BITS == 34
OPERAND_BITS_OFFSET == NUM_THREAD_BITS + NUM_OPERATION_BITS
NUM_LOCATION_BITS == 15
LOCATION_BITS_OFFSET == NUM_THREAD_BITS + NUM_OPERATION_BITS + NUM_OPERAND_BITS

\* ((1 << n) - 1) << off
MaskOf(n, off) == off..(off + n - 1)

THREAD_MASK == MaskOf(NUM_THREAD_BITS, THREAD_BITS_OFFSET)
OPERATION_MASK == MaskOf(NUM_OPERATION_BITS, OPERATION_BITS_OFFSET)
OPERAND_MASK == MaskOf(NUM_OPERAND_BITS, OPERATION_BITS_OFFSET)
LOCATION_MASK == MaskOf(NUM_LOCATION_BITS, LOCATION_BITS_OFFSET)

RECURSIVE BitsValue(_)
\* the non-negative integer whose set bits are bits
BitsValue(bits) ==
    IF bits = {} THEN 0
    ELSE LET b == CHOOSE x \in bits : TRUE
         IN  2^b + BitsValue(bits \ {b})

\* (raw & mask) >> off
Extract(raw, mask, off) == BitsValue({b - off : b \in {x \in raw \cap mask : x >= off}})

\* Operation::new
OperationNew(value) ==
    CASE value = 0 -> Some("Acquire")
      [] value = 1 -> Some("Release")
      [] value = 2 -> Some("Read")
      [] value = 3 -> Some("Write")
      [] value = 4 -> Some("Fork")
      [] value = 5 -> Some("Join")
      [] value = 6 -> Some("Begin")
      [] value = 7 -> Some("End")
      [] value = 8 -> Some("Request")
      [] value = 9 -> Some("Branch")
      [] OTHER -> None

\* Operand::new
OperandNew(operation, operand_id) ==
    CASE operation \in {"Read", "Write"} -> [tag |-> "MemoryLocation", id |-> Some(operand_id)]
      [] operation \in {"Acquire", "Request", "Release"} -> [tag |-> "LockIdentifier", id |-> Some(operand_id)]
      [] operation \in {"Fork", "Join"} -> [tag |-> "ThreadIdentifier", id |-> Some(operand_id)]
      [] OTHER -> [tag |-> "None", id |-> None]

\* try_parse_event: None or Some(event)
try_parse_event(raw) ==
    LET thread_identifier == Extract(raw, THREAD_MASK, THREAD_BITS_OFFSET)
        operation_id == Extract(raw, OPERATION_MASK, OPERATION_BITS_OFFSET)
        operand_id == Extract(raw, OPERAND_MASK, OPERAND_BITS_OFFSET)
        loc == Extract(raw, LOCATION_MASK, LOCATION_BITS_OFFSET)
        operation == OperationNew(operation_id)
    IN  IF ~is_some(operation) THEN None
        ELSE Some([thread_identifier |-> thread_identifier,
                   operation |-> unwrap(operation),
                   operand |-> OperandNew(unwrap(operation), operand_id),
                   loc |-> loc])

(***************************************************************************)
(* analyze_event (analyzer.rs 385-515)                                     *)
(***************************************************************************)
Lock(owner, locked, lrow) == [owner |-> owner, locked |-> locked, row |-> lrow]

\* HashMap::insert
Insert(map, key, value) ==
    [k \in DOMAIN map \cup {key} |-> IF k = key THEN value ELSE map[k]]

\* locks_of_thread
locks_of_thread(thread_id, lockmap) ==
    {id \in DOMAIN lockmap :
        is_some(lockmap[id].owner) /\ unwrap(lockmap[id].owner) = thread_id}

\* variant of AcquireDependencies that moves an existing record to the row
\* of the latest acquire
AcquireDependencies_Relined(deps, thread_id, lock_id, thread_owned_locks, line) ==
    LET existing == {i \in 1..Len(deps) :
                        /\ deps[i].thread_id = thread_id
                        /\ deps[i].lock_id = lock_id
                        /\ deps[i].acquired_locks = thread_owned_locks}
    IN  IF existing = {}
        THEN Append(deps, [thread_id |-> thread_id, lock_id |-> lock_id,
                           acquired_locks |-> thread_owned_locks, line |-> line])
        ELSE [i \in 1..Len(deps) |->
                 IF i \in existing THEN [deps[i] EXCEPT !.line = line] ELSE deps[i]]

\* variant of AcquireDependencies that does not look for an existing record
AcquireDependencies_Always(deps, thread_id, lock_id, thread_owned_locks, line) ==
    Append(deps, [thread_id |-> thread_id, lock_id |-> lock_id,
                  acquired_locks |-> thread_owned_locks, line |-> line])

\* the dependency list after an Acquire when --lock-dependencies is set
AcquireDependencies(deps, thread_id, lock_id, thread_owned_locks, line) ==
    LET existing == {i \in 1..Len(deps) :
                        /\ deps[i].thread_id = thread_id
                        /\ deps[i].lock_id = lock_id
                        /\ deps[i].acquired_locks = thread_owned_locks}
    IN  IF existing = {}
        THEN Append(deps, [thread_id |-> thread_id, lock_id |-> lock_id,
                           acquired_locks |-> thread_owned_locks, line |-> line])
        ELSE deps

\* variant of AcquireEdges that draws the edges from the acquired lock
AcquireEdges_Reversed(graphviz, thread_owned_locks, lock_id) ==
    graphviz \cup {[from |-> lock_id, to |-> owned_lock] : owned_lock \in thread_owned_locks}

\* the edge set after an Acquire when --graph is set
AcquireEdges(graphviz, thread_owned_locks, lock_id) ==
    graphviz \cup {[from |-> owned_lock, to |-> lock_id] : owned_lock \in thread_owned_locks}

\* variant of IsRepeatedAcquisition that does not compare the owner
IsRepeatedAcquisition_AnyHolder(lockmap, lock_id, thread_id) ==
    /\ lock_id \in DOMAIN lockmap
    /\ lockmap[lock_id].locked

\* the guard of the RepeatedAcquisition branch
IsRepeatedAcquisition(lockmap, lock_id, thread_id) ==
    /\ lock_id \in DOMAIN lockmap
    /\ lockmap[lock_id].locked
    /\ unwrap(lockmap[lock_id].owner) # thread_id

\* the lock state an accepted Acquire stores
AcquiredLock(thread_id, line) == Lock(Some(thread_id), TRUE, line)

\* variant of ReleasedLock that leaves the locked flag set
ReleasedLock_StaysLocked(line) == Lock(None, TRUE, line)

\* the lock state an accepted Release stores
ReleasedLock(line) == Lock(None, FALSE, line)

\* variant of ReleaseViolation that reports the attempted row as the
\* previous row
ReleaseViolation_PreviousIsLine(lockmap, lock_id, thread_id, line) ==
    IF lock_id \notin DOMAIN lockmap
    THEN Some([kind |-> "ReleasedNonAcquiredLock", row |-> line,
               lock_id |-> lock_id, thread_id |-> thread_id])
    ELSE LET lock == lockmap[lock_id]
         IN  IF ~lock.locked
             THEN Some([kind |-> "RepeatedRelease", attempted |-> line,
                        previous |-> line, lock_id |-> lock_id,
                        thread_id |-> thread_id])
             ELSE IF is_some(lock.owner) /\ unwrap(lock.owner) # thread_id
                  THEN Some([kind |-> "ReleasedNonOwningLock", row |-> line,
                             lock_id |-> lock_id, thread_id |-> thread_id,
                             owner |-> unwrap(lock.owner)])
                  ELSE None

\* variant of ReleaseViolation that treats a free lock like an unseen one
ReleaseViolation_FreeAsUnseen(lockmap, lock_id, thread_id, line) ==
    IF lock_id \notin DOMAIN lockmap \/ ~lockmap[lock_id].locked
    THEN Some([kind |-> "ReleasedNonAcquiredLock", row |-> line,
               lock_id |-> lock_id, thread_id |-> thread_id])
    ELSE LET lock == lockmap[lock_id]
         IN  IF is_some(lock.owner) /\ unwrap(lock.owner) # thread_id
             THEN Some([kind |-> "ReleasedNonOwningLock", row |-> line,
                        lock_id |-> lock_id, thread_id |-> thread_id,
                        owner |-> unwrap(lock.owner)])
             ELSE None

\* the violation a Release reports, None when it is accepted
ReleaseViolation(lockmap, lock_id, thread_id, line) ==
    IF lock_id \notin DOMAIN lockmap
    THEN Some([kind |-> "ReleasedNonAcquiredLock", row |-> line,
               lock_id |-> lock_id, thread_id |-> thread_id])
    ELSE LET lock == lockmap[lock_id]
         IN  IF ~lock.locked
             THEN Some([kind |-> "RepeatedRelease", attempted |-> line,
                        previous |-> lock.row, lock_id |-> lock_id,
                        thread_id |-> thread_id])
             ELSE IF is_some(lock.owner) /\ unwrap(lock.owner) # thread_id
                  THEN Some([kind |-> "ReleasedNonOwningLock", row |-> line,
                             lock_id |-> lock_id, thread_id |-> thread_id,
                             owner |-> unwrap(lock.owner)])
                  ELSE None

\* variant of ReleaseLocks that stores the released state even when the
\* release was rejected
ReleaseLocks_Always(lockmap, lock_id, violation, line) ==
    Insert(lockmap, lock_id, Lock(None, FALSE, line))

\* the lock map after a Release whose check gave violation
ReleaseLocks(lockmap, lock_id, violation, line) ==
    IF is_some(violation) THEN lockmap
    ELSE Insert(lockmap, lock_id, ReleasedLock(line))

\* variant of AcquireLocks that stores the new owner even when the acquire
\* was rejected
AcquireLocks_Always(lockmap, lock_id, thread_id, repeated, line) ==
    Insert(lockmap, lock_id, Lock(Some(thread_id), TRUE, line))

\* variant of AcquireLocks that leaves a lock its thread already holds
AcquireLocks_KeepHeld(lockmap, lock_id, thread_id, repeated, line) ==
    IF repeated \/ (lock_id \in DOMAIN lockmap /\ lockmap[lock_id].locked)
    THEN lockmap
    ELSE Insert(lockmap, lock_id, AcquiredLock(thread_id, line))

\* the lock map after an Acquire; repeated tells whether it was rejected
AcquireLocks(lockmap, lock_id, thread_id, repeated, line) ==
    IF repeated THEN lockmap
    ELSE Insert(lockmap, lock_id, AcquiredLock(thread_id, line))

\* variant of analyze_event that handles a Request like an Acquire
analyze_event_RequestAcquires(args, event, lockmap, line, graphviz, deps) ==
    IF event.operation \in {"Acquire", "Request"}
    THEN LET lock_id == unwrap(event.operand.id)
             thread_owned_locks == locks_of_thread(event.thread_identifier, lockmap)
             repeated == IsRepeatedAcquisition(lockmap, lock_id, event.thread_identifier)
         IN  [result |-> IF repeated
                         THEN Some([kind |-> "RepeatedAcquisition",
                                    lock_id |-> lock_id,
                                    thread_id |-> event.thread_identifier,
                                    owner_id |-> unwrap(lockmap[lock_id].owner),
                                    row |-> line])
                         ELSE None,
              locks |-> AcquireLocks(lockmap, lock_id, event.thread_identifier, repeated, line),
              graphviz |-> IF args.graph
                           THEN AcquireEdges(graphviz, thread_owned_locks, lock_id)
                           ELSE graphviz,
              lock_dependencies |->
                  IF args.lock_dependencies
                  THEN AcquireDependencies(deps, event.thread_identifier, lock_id,
                                           thread_owned_locks, line)
                  ELSE deps]
    ELSE IF event.operation = "Release"
    THEN LET lock_id == unwrap(event.operand.id)
             violation == ReleaseViolation(lockmap, lock_id, event.thread_identifier, line)
         IN  [result |-> violation,
              locks |-> ReleaseLocks(lockmap, lock_id, violation, line),
              graphviz |-> graphviz,
              lock_dependencies |-> deps]
    ELSE [result |-> None, locks |-> lockmap, graphviz |-> graphviz,
          lock_dependencies |-> deps]

\* variant of analyze_event that collects the edges whatever the graph flag
analyze_event_EdgesAlways(args, event, lockmap, line, graphviz, deps) ==
    IF event.operation = "Acquire"
    THEN LET lock_id == unwrap(event.operand.id)
             thread_owned_locks == locks_of_thread(event.thread_identifier, lockmap)
             repeated == IsRepeatedAcquisition(lockmap, lock_id, event.thread_identifier)
         IN  [result |-> IF repeated
                         THEN Some([kind |-> "RepeatedAcquisition",
                                    lock_id |-> lock_id,
                                    thread_id |-> event.thread_identifier,
                                    owner_id |-> unwrap(lockmap[lock_id].owner),
                                    row |-> line])
                         ELSE None,
              locks |-> AcquireLocks(lockmap, lock_id, event.thread_identifier, repeated, line),
              graphviz |-> AcquireEdges(graphviz, thread_owned_locks, lock_id),
              lock_dependencies |->
                  IF args.lock_dependencies
                  THEN AcquireDependencies(deps, event.thread_identifier, lock_id,
                                           thread_owned_locks, line)
                  ELSE deps]
    ELSE IF event.operation = "Release"
    THEN LET lock_id == unwrap(event.operand.id)
             violation == ReleaseViolation(lockmap, lock_id, event.thread_identifier, line)
         IN  \* lock_dependency.clone().remove_lock(lock_id) changes a
             \* temporary copy only: the list is as before
             [result |-> violation,
              locks |-> ReleaseLocks(lockmap, lock_id, violation, line),
              graphviz |-> graphviz,
              lock_dependencies |-> deps]
    ELSE [result |-> None, locks |-> lockmap, graphviz |-> graphviz,
          lock_dependencies |-> deps]

\* variant of analyze_event that accepts every acquire when the graph flag
\* is set
analyze_event_GraphSkipsCheck(args, event, lockmap, line, graphviz, deps) ==
    IF event.operation = "Acquire"
    THEN LET lock_id == unwrap(event.operand.id)
             thread_owned_locks == locks_of_thread(event.thread_identifier, lockmap)
             repeated == /\ ~args.graph
                         /\ IsRepeatedAcquisition(lockmap, lock_id, event.thread_identifier)
         IN  [result |-> IF repeated
                         THEN Some([kind |-> "RepeatedAcquisition",
                                    lock_id |-> lock_id,
                                    thread_id |-> event.thread_identifier,
                                    owner_id |-> unwrap(lockmap[lock_id].owner),
                                    row |-> line])
                         ELSE None,
              locks |-> AcquireLocks(lockmap, lock_id, event.thread_identifier, repeated, line),
              graphviz |-> IF args.graph
                           THEN AcquireEdges(graphviz, thread_owned_locks, lock_id)
                           ELSE graphviz,
              lock_dependencies |->
                  IF args.lock_dependencies
                  THEN AcquireDependencies(deps, event.thread_identifier, lock_id,
                                           thread_owned_locks, line)
                  ELSE deps]
    ELSE IF event.operation = "Release"
    THEN LET lock_id == unwrap(event.operand.id)
             violation == ReleaseViolation(lockmap, lock_id, event.thread_identifier, line)
         IN  \* lock_dependency.clone().remove_lock(lock_id) changes a
             \* temporary copy only: the list is as before
             [result |-> violation,
              locks |-> ReleaseLocks(lockmap, lock_id, violation, line),
              graphviz |-> graphviz,
              lock_dependencies |-> deps]
    ELSE [result |-> None, locks |-> lockmap, graphviz |-> graphviz,
          lock_dependencies |-> deps]

\* analyze_event: [result, locks, graphviz, lock_dependencies]; result is
\* None for Ok(()) and Some(error) for Err(error)
analyze_event(args, event, lockmap, line, graphviz, deps) ==
    IF event.operation = "Acquire"
    THEN LET lock_id == unwrap(event.operand.id)
             thread_owned_locks == locks_of_thread(event.thread_identifier, lockmap)
             repeated == IsRepeatedAcquisition(lockmap, lock_id, event.thread_identifier)
         IN  [result |-> IF repeated
                         THEN Some([kind |-> "RepeatedAcquisition",
                                    lock_id |-> lock_id,
                                    thread_id |-> event.thread_identifier,
                                    owner_id |-> unwrap(lockmap[lock_id].owner),
                                    row |-> line])
                         ELSE None,
              locks |-> AcquireLocks(lockmap, lock_id, event.thread_identifier, repeated, line),
              graphviz |-> IF args.graph
                           THEN AcquireEdges(graphviz, thread_owned_locks, lock_id)
                           ELSE graphviz,
              lock_dependencies |->
                  IF args.lock_dependencies
                  THEN AcquireDependencies(deps, event.thread_identifier, lock_id,
                                           thread_owned_locks, line)
                  ELSE deps]
    ELSE IF event.operation = "Release"
    THEN LET lock_id == unwrap(event.operand.id)
             violation == ReleaseViolation(lockmap, lock_id, event.thread_identifier, line)
         IN  \* lock_dependency.clone().remove_lock(lock_id) changes a
             \* temporary copy only: the list is as before
             [result |-> violation,
              locks |-> ReleaseLocks(lockmap, lock_id, violation, line),
              graphviz |-> graphviz,
              lock_dependencies |-> deps]
    ELSE [result |-> None, locks |-> lockmap, graphviz |-> graphviz,
          lock_dependencies |-> deps]

(***************************************************************************)
(* Inputs: the lines of a textual trace and the records of a binary trace  *)
(***************************************************************************)
\* source location written at the end of every line
Loc == 59

\* T<t>|<op>(<operand>)|<Loc>
EventLine(t, op, operand) ==
    <<TokV("ThreadIdentifier", t), Tok("Pipe"), Tok(op), Tok("LeftParenthesis"),
      operand, Tok("RightParenthesis"), Tok("Pipe"), TokV("LineNumber", Loc)>>

\* lines with a typed operand (acq(L9)) and with a bare integer (acq(9))
WellFormedLines ==
    {EventLine(t, op, TokV(k, l)) :
        t \in Threads, op \in {"Acquire", "Release"},
        k \in {"LockIdentifier", "LineNumber"}, l \in Locks}
    \cup {EventLine(6, "Write", TokV(k, 1)) : k \in {"MemoryLocation", "LineNumber"}}

\* an empty line, a line with an unknown character, a line that ends after
\* the operator, and a line with a doubled operator
MalformedLines ==
    { <<>>,
      <<TokV("ThreadIdentifier", 6), Tok("Pipe"), Tok("Write"), Invalid>>,
      <<TokV("ThreadIdentifier", 6), Tok("Pipe"), Tok("Acquire")>>,
      <<TokV("ThreadIdentifier", 6), Tok("Pipe"), Tok("Write"), Tok("Write"),
        Tok("LeftParenthesis"), TokV("MemoryLocation", 1), Tok("RightParenthesis"),
        Tok("Pipe"), TokV("LineNumber", Loc)>> }

\* what BufRead::lines yields: Ok(source) or Err (io)
TextLines ==
    {[io |-> FALSE, source |-> l] : l \in WellFormedLines \cup MalformedLines}
    \cup {[io |-> TRUE, source |-> <<>>]}

\* 8-byte records: acquire/release records of two threads and two locks,
\* a read record {1}, a request record {3}, and two records whose low four
\* bits are 10 (the second also has 10 in bits 10..13)
RawRecords ==
    (SUBSET RawBits) \cup {{1}, {3}, {1, 3}, {1, 3, 11, 13}}

\* one line per operator of the textual format, by thread 6 on lock 8,
\* variable 1 and thread 7, and an acquire of lock 8 by thread 7
OperationLines ==
    {[io |-> FALSE, source |-> l] :
        l \in {EventLine(6, "Acquire", TokV("LockIdentifier", 8)),
               EventLine(6, "Release", TokV("LockIdentifier", 8)),
               EventLine(6, "Request", TokV("LockIdentifier", 8)),
               EventLine(6, "Read", TokV("MemoryLocation", 1)),
               EventLine(6, "Write", TokV("MemoryLocation", 1)),
               EventLine(6, "Fork", TokV("ThreadIdentifier", 7)),
               EventLine(6, "Join", TokV("ThreadIdentifier", 7)),
               EventLine(7, "Acquire", TokV("LockIdentifier", 8))}}

\* records whose low four bits run through 0..10, with thread bits 0..3
\* (and bit 4 in two of them), operand 0 or 1 and location 0 or 1
OperationRecords ==
    (SUBSET {0, 1, 2}) \cup {{3}, {0, 3}, {1, 3}, {4}, {0, 4}, {14}, {0, 14},
                             {10}, {1, 11}, {0, 34}, {48}, {0, 63}}

\* the length of the traces of acquire and release events
MaxLockRows == 5

\* acquire and release lines of two threads on two locks
LockLines ==
    {[io |-> FALSE, source |-> EventLine(t, op, TokV("LockIdentifier", l))] :
        t \in Threads, op \in {"Acquire", "Release"}, l \in Locks}

\* acquire records of threads 0 and 16 and release records of thread 1, on
\* locks 0 and 1
LockRecords == {{}, {14}, {4}, {4, 14}, {0}, {0, 14}}

\* the number of lines or records of a trace that exercises the decoders
MaxDecodeRows == 1

\* a line of each operator with a bare integer operand
BareLines ==
    {EventLine(6, op, TokV("LineNumber", v)) : op \in OperatorKinds, v \in {1, 8}}

\* a line of each operator with each kind of typed operand
TypedLines ==
    {EventLine(6, op, TokV(k, 8)) : op \in OperationKinds, k \in OperandKinds}

\* T6|w w(V1)|59, as in test/double_write_token.std
DoubleWriteLine ==
    <<TokV("ThreadIdentifier", 6), Tok("Pipe"), Tok("Write"), Tok("Write"),
      Tok("LeftParenthesis"), TokV("MemoryLocation", 1), Tok("RightParenthesis"),
      Tok("Pipe"), TokV("LineNumber", Loc)>>

\* T6|acq(L8)|59 with one token replaced by '[', cut after n tokens, and
\* followed by one more token; and the line with a doubled operator
MisfitLines ==
    LET good == EventLine(6, "Acquire", TokV("LockIdentifier", 8))
    IN  {[good EXCEPT ![p] = Tok("LeftSquareBracket")] : p \in 1..8}
        \cup {SubSeq(good, 1, n) : n \in 0..7}
        \cup {Append(good, Tok("Pipe")), DoubleWriteLine}

DecodeLines ==
    {[io |-> FALSE, source |-> l] : l \in BareLines \cup TypedLines \cup MisfitLines}

(***************************************************************************)
(* State                                                                   *)
(***************************************************************************)
VARIABLES
    arguments,          \* the command line flags
    file_extension,     \* Option<&str>: None before the file is opened and for a name without extension
    pc,                 \* "open", "std", "header", "rapid", "post", "done", "panic"
    errors,             \* Vec<AnalyzerError>
    locks,              \* HashMap<i64, Lock>
    row,                \* the row counter of the decoder loop
    lockgraph,          \* HashSet<Edge>
    lock_dependencies,  \* Vec<LockDependency>
    graphviz_locks,     \* the edges written to output/graphviz_locks.txt
    result,             \* None while running, then Some(Ok) / Some(Err(errors))
    consumed,           \* number of lines / records read so far
    analyzed,           \* the events given to analyze_event: [event, row, pos]
    event_buffer,       \* the 8-byte record read last, as the set of its set bits
    std_line,           \* the line read last by the textual loop: None or Some(line)
    trailing,           \* bytes of the input after its last complete record
    graph,              \* HashMap<i64, HashSet<i64>>: the thread graph
    visited,            \* validate_dependency_graph: HashMap<i64, bool>
    recursion_stack,    \* validate_dependency_graph: HashMap<i64, bool>
    keys_left,          \* the keys graph.keys() has not yet yielded
    entered,            \* how often contains_cycle was entered, per node
    found_deadlocks     \* the counter of validate_dependency_graph

\* what the decoders read besides complete records
reads == <<std_line, trailing>>

\* the locals of validate_dependency_graph
search == <<visited, recursion_stack, keys_left, entered>>

vars == <<arguments, file_extension, pc, errors, locks, row, lockgraph, lock_dependencies,
          graphviz_locks, result, consumed, analyzed, event_buffer, reads, graph,
          search, found_deadlocks>>

Init ==
    /\ arguments \in [normalize : BOOLEAN, graph : BOOLEAN, lock_dependencies : BOOLEAN]
    /\ file_extension = None
    /\ pc = "open"
    /\ errors = <<>>
    /\ locks = <<>>
    /\ row = 1
    /\ lockgraph = {}
    /\ lock_dependencies = <<>>
    /\ graphviz_locks = {}
    /\ result = None
    /\ consumed = 0
    /\ analyzed = <<>>
    /\ event_buffer = {}
    /\ std_line = None
    /\ trailing = 0
    /\ graph = <<>>
    /\ visited = <<>>
    /\ recursion_stack = <<>>
    /\ keys_left = {}
    /\ entered = <<>>
    /\ found_deadlocks = 0

(***************************************************************************)
(* analyze_trace up to the decoder dispatch (analyzer.rs 51-104)           *)
(***************************************************************************)
\* variant of Returned that reports the first violation only
Returned_FirstOnly(errs) ==
    IF errs = <<>> THEN [tag |-> "Ok", errors |-> <<>>]
    ELSE [tag |-> "Err", errors |-> <<errs[1]>>]

\* what analyze_trace returns for the violation list errs: Ok(()) or Err(errs)
Returned(errs) ==
    IF errs = <<>> THEN [tag |-> "Ok", errors |-> <<>>]
    ELSE [tag |-> "Err", errors |-> errs]

\* Path::new(input).extension().and_then(to_str): None for a name without
\* an extension
Extensions == {Some("std"), Some("data"), Some("txt"), None}

\* variant of Decoder that reads every file with an extension as text
Decoder_TextByDefault(extension) ==
    IF extension = Some("data") THEN "header"
    ELSE IF is_some(extension) THEN "std"
    ELSE "post"

\* match file_extension: where the run continues ("post": no decoder)
Decoder(extension) ==
    IF extension = Some("std") THEN "std"
    ELSE IF extension = Some("data") THEN "header"
    ELSE "post"

Open ==
    /\ pc = "open"
    /\ \E opened \in BOOLEAN, extension \in Extensions :
          IF ~opened
          THEN /\ file_extension' = file_extension
               /\ errors' = Append(errors, [kind |-> "IOError"])
               /\ result' = Some(Returned(errors'))
               /\ pc' = "done"
          ELSE /\ file_extension' = extension
               /\ result' = result
               /\ pc' = Decoder(extension)
               /\ errors' = IF Decoder(extension) = "post"
                            THEN Append(errors, [kind |-> "UnsupportedFileExtension"])
                            ELSE errors
    /\ UNCHANGED <<arguments, locks, row, lockgraph, lock_dependencies,
                   graphviz_locks, consumed, analyzed, event_buffer, reads, graph, search,
                   found_deadlocks>>

(***************************************************************************)
(* analyze_std_trace (analyzer.rs 209-243): one iteration of the loop      *)
(***************************************************************************)
\* the outcome of decoding one line: [status, event]; status is "ok",
\* "io", "lexer", "parser" or "panic"
DecodeLine(line, normalize) ==
    IF line.io THEN [status |-> "io"]
    ELSE LET tk == tokenize_source(line.source, normalize)
         IN  IF tk.status # "ok" THEN [status |-> tk.status]
             ELSE LET pr == parse_event(tk.tokens)
                  IN  IF pr.ok THEN [status |-> "ok", event |-> pr.event]
                      ELSE [status |-> "parser", location |-> pr.location,
                            expected |-> pr.expected]

\* AnalyzerError::from(err) for a failed decode
DecodeError(d) ==
    CASE d.status = "io" -> [kind |-> "IOError"]
      [] d.status = "lexer" -> [kind |-> "LexerError"]
      [] OTHER -> [kind |-> "ParserError", location |-> d.location,
                   expected |-> d.expected]

\* variant of PushDecodeError that drops the violations recorded so far
PushDecodeError_Replace(errs, d) == <<DecodeError(d)>>

\* return errors.push(AnalyzerError::from(err))
PushDecodeError(errs, d) == Append(errs, DecodeError(d))

\* match analyze_event(..) { Ok(_) => {}, Err(error) => errors.push(error) }
PushResult(errs, res) == IF is_some(res) THEN Append(errs, unwrap(res)) ELSE errs

\* variant of StdNextRow that does not count an event that was a violation
StdNextRow_SkipOnViolation(r, res) == IF is_some(res) THEN r ELSE r + 1

\* row += 1 at the end of the loop body of analyze_std_trace
StdNextRow(r, res) == r + 1

\* variant of StdAfterEvent that leaves the loop at the first violation
StdAfterEvent_StopOnViolation(res) == IF is_some(res) THEN "post" ELSE "std"

\* where the textual loop goes after an analyzed event
StdAfterEvent(res) == "std"

StdLineOf(lines, rows) ==
    /\ pc = "std"
    /\ consumed < rows
    /\ \E line \in lines :
          LET d == DecodeLine(line, arguments.normalize)
          IN  /\ consumed' = consumed + 1
              /\ std_line' = Some(line)
              /\ IF d.status = "panic"
                 THEN /\ pc' = "panic"
                      /\ UNCHANGED <<errors, locks, row, lockgraph,
                                     lock_dependencies, analyzed>>
                 ELSE IF d.status # "ok"
                 THEN /\ errors' = PushDecodeError(errors, d)
                      /\ pc' = "post"
                      /\ UNCHANGED <<locks, row, lockgraph, lock_dependencies, analyzed>>
                 ELSE LET a == analyze_event(arguments, d.event, locks, row,
                                             lockgraph, lock_dependencies)
                      IN  /\ analyzed' = Append(analyzed,
                                 [event |-> d.event, row |-> row, pos |-> consumed + 1])
                          /\ errors' = PushResult(errors, a.result)
                          /\ locks' = a.locks
                          /\ lockgraph' = a.graphviz
                          /\ lock_dependencies' = a.lock_dependencies
                          /\ row' = StdNextRow(row, a.result)
                          /\ pc' = StdAfterEvent(a.result)
    /\ UNCHANGED <<arguments, file_extension, graphviz_locks, result, event_buffer,
                   trailing, graph, search, found_deadlocks>>

StdLine == StdLineOf(TextLines, MaxRows)

\* trace_reader.lines() is exhausted
StdEof ==
    /\ pc = "std"
    /\ pc' = "post"
    /\ UNCHANGED <<arguments, file_extension, errors, locks, row, lockgraph, lock_dependencies,
                   graphviz_locks, result, consumed, analyzed, event_buffer, reads, graph,
                   search, found_deadlocks>>

(***************************************************************************)
(* analyze_rapid_trace (analyzer.rs 278-335)                               *)
(***************************************************************************)
\* parse_trace_header: four read_exact(..).unwrap(); a file shorter than the
\* 18 header bytes panics
RapidHeader ==
    /\ pc = "header"
    /\ \E complete \in BOOLEAN : pc' = IF complete THEN "rapid" ELSE "panic"
    /\ UNCHANGED <<arguments, file_extension, errors, locks, row, lockgraph, lock_dependencies,
                   graphviz_locks, result, consumed, analyzed, event_buffer, reads, graph,
                   search, found_deadlocks>>

\* the row counter after a record whose operation id is unknown (continue)
RapidSkipRow(r) == r

\* one iteration of the while loop with a complete 8-byte record
RapidRecordOf(records, rows) ==
    /\ pc = "rapid"
    /\ consumed < rows
    /\ \E raw \in records :
          LET ev == try_parse_event(raw)
          IN  /\ consumed' = consumed + 1
              /\ event_buffer' = raw
              /\ IF ~is_some(ev)
                 THEN /\ row' = RapidSkipRow(row)
                      /\ UNCHANGED <<errors, locks, lockgraph, lock_dependencies, analyzed>>
                 ELSE LET a == analyze_event(arguments, unwrap(ev), locks, row,
                                             lockgraph, lock_dependencies)
                      IN  /\ analyzed' = Append(analyzed,
                                 [event |-> unwrap(ev), row |-> row, pos |-> consumed + 1])
                          /\ errors' = PushResult(errors, a.result)
                          /\ locks' = a.locks
                          /\ lockgraph' = a.graphviz
                          /\ lock_dependencies' = a.lock_dependencies
                          /\ row' = row + 1
    /\ UNCHANGED <<arguments, file_extension, pc, graphviz_locks, result, reads,
                   graph, search, found_deadlocks>>

RapidRecord == RapidRecordOf(RawRecords, MaxRows)

\* the while loop of analyze_rapid_trace run to the end of the given
\* records, from the i-th on: the violation list it leaves
RECURSIVE analyze_rapid_trace(_, _, _, _, _, _, _, _)
analyze_rapid_trace(args, records, i, errs, lockmap, r, graphviz, deps) ==
    IF i > Len(records) THEN errs
    ELSE LET ev == try_parse_event(records[i])
         IN  IF ~is_some(ev)
             THEN analyze_rapid_trace(args, records, i + 1, errs, lockmap,
                                      RapidSkipRow(r), graphviz, deps)
             ELSE LET a == analyze_event(args, unwrap(ev), lockmap, r, graphviz, deps)
                  IN  analyze_rapid_trace(args, records, i + 1,
                                          PushResult(errs, a.result), a.locks, r + 1,
                                          a.graphviz, a.lock_dependencies)

\* the number of bytes left when read_exact fails: none (the input ends on
\* a record boundary) or fewer than eight (it ends inside a record)
TrailingBytes == {0, 5}

\* variant of ShortRead that reports an input ending inside a record
ShortRead_Reported(bytes) == IF bytes = 0 THEN None ELSE Some([kind |-> "IOError"])

\* what the loop records when read_exact(..).is_ok() is false: nothing
ShortRead(bytes) == None

\* read_exact fails: the while loop ends; the bytes of a partial record are
\* dropped (the buffer is not looked at again)
RapidEof ==
    /\ pc = "rapid"
    /\ \E bytes \in TrailingBytes :
          /\ trailing' = bytes
          /\ errors' = PushResult(errors, ShortRead(bytes))
    /\ pc' = "post"
    /\ UNCHANGED <<arguments, file_extension, locks, row, lockgraph, lock_dependencies,
                   graphviz_locks, result, consumed, analyzed, event_buffer, std_line,
                   graph, search, found_deadlocks>>

(***************************************************************************)
(* The thread graph (analyzer.rs 123-156, 191-193)                         *)
(***************************************************************************)
\* graph.entry(from).or_insert_with(HashSet::new).insert(to)
add_edge(g, from, to) ==
    Insert(g, from, (IF from \in DOMAIN g THEN g[from] ELSE {}) \cup {to})

\* variant of Children that keeps the records of the entry's own thread
Children_AnyThread(deps, entry) ==
    {deps[j].thread_id :
        j \in {k \in 1..Len(deps) :
                 /\ deps[k].acquired_locks \cap entry.acquired_locks = {}
                 /\ entry.lock_id \in deps[k].acquired_locks}}

\* the two filters and the map over lock_dependencies.iter(), collected
\* into a HashSet
Children(deps, entry) ==
    {deps[j].thread_id :
        j \in {k \in 1..Len(deps) :
                 /\ deps[k].thread_id # entry.thread_id
                 /\ deps[k].acquired_locks \cap entry.acquired_locks = {}
                 /\ entry.lock_id \in deps[k].acquired_locks}}

\* for child in children { add_edge(&mut graph, entry.thread_id, child) }
RECURSIVE AddChildren(_, _, _)
AddChildren(g, from, children) ==
    IF children = {} THEN g
    ELSE LET child == CHOOSE c \in children : TRUE
         IN  AddChildren(add_edge(g, from, child), from, children \ {child})

\* for entry in &lock_dependencies, from the i-th entry on
RECURSIVE ThreadGraph(_, _, _)
ThreadGraph(deps, i, g) ==
    IF i > Len(deps) THEN g
    ELSE ThreadGraph(deps, i + 1,
                     AddChildren(g, deps[i].thread_id, Children(deps, deps[i])))

(***************************************************************************)
(* validate_dependency_graph and contains_cycle (analyzer.rs 562-617).     *)
(* A HashMap and a HashSet iterate in an order the program does not        *)
(* choose, so both functions are modelled by the set of their outcomes     *)
(* over all iteration orders.                                              *)
(***************************************************************************)
\* map.get(&key) is Some(&true)
IsTrue(map, key) == key \in DOMAIN map /\ map[key]

\* variant of OnStack that asks whether the child was visited
OnStack_Visited(vis, stack, child) == IsTrue(vis, child)

\* recursion_stack.get(&child).is_some() && .. == &true
OnStack(vis, stack, child) == IsTrue(stack, child)

\* one more entry of contains_cycle(node) in the tally of its calls
Entered(calls, node) ==
    Insert(calls, node, (IF node \in DOMAIN calls THEN calls[node] ELSE 0) + 1)

\* contains_cycle: the outcomes [ret, visited, recursion_stack, calls], calls
\* being the tally of the calls made so far; ChildLoop is its for loop over
\* the children not yet iterated
RECURSIVE contains_cycle(_, _, _, _, _)
RECURSIVE ChildLoop(_, _, _, _, _, _)
ChildLoop(g, node, children, vis, stack, calls) ==
    IF children = {}
    THEN {[ret |-> FALSE, visited |-> vis,
           recursion_stack |-> Insert(stack, node, FALSE), calls |-> calls]}
    ELSE UNION {
           IF child \notin DOMAIN vis
           THEN UNION {
                  IF o.ret THEN {o}
                  ELSE IF OnStack(o.visited, o.recursion_stack, child)
                  THEN {[ret |-> TRUE, visited |-> o.visited,
                         recursion_stack |-> o.recursion_stack, calls |-> o.calls]}
                  ELSE ChildLoop(g, node, children \ {child}, o.visited,
                                 o.recursion_stack, o.calls) :
                  o \in contains_cycle(g, child, vis, stack, calls)}
           ELSE IF OnStack(vis, stack, child)
           THEN {[ret |-> TRUE, visited |-> vis, recursion_stack |-> stack,
                  calls |-> calls]}
           ELSE ChildLoop(g, node, children \ {child}, vis, stack, calls) :
           child \in children}

contains_cycle(g, node, vis, stack, calls) ==
    ChildLoop(g, node, IF node \in DOMAIN g THEN g[node] ELSE {},
              Insert(vis, node, TRUE), Insert(stack, node, TRUE),
              Entered(calls, node))

\* variant of ValidateNode that launches the search from every key
ValidateNode_EveryKey(g, node, vis, stack, found, calls) ==
    {[visited |-> o.visited, recursion_stack |-> o.recursion_stack,
      found_deadlocks |-> IF o.ret THEN found + 1 ELSE found, calls |-> o.calls] :
     o \in contains_cycle(g, node, vis, stack, calls)}

\* one iteration of for node in graph.keys(): the outcomes
\* [visited, recursion_stack, found_deadlocks, calls]
ValidateNode(g, node, vis, stack, found, calls) ==
    IF ~IsTrue(vis, node)
    THEN {[visited |-> o.visited, recursion_stack |-> o.recursion_stack,
           found_deadlocks |-> IF o.ret THEN found + 1 ELSE found,
           calls |-> o.calls] :
          o \in contains_cycle(g, node, vis, stack, calls)}
    ELSE {[visited |-> vis, recursion_stack |-> stack, found_deadlocks |-> found,
           calls |-> calls]}

\* the rest of the loop over the keys not yet iterated: the counts it can
\* end with
RECURSIVE ValidateKeys(_, _, _, _, _)
ValidateKeys(g, keys, vis, stack, found) ==
    IF keys = {} THEN {found}
    ELSE UNION {UNION {ValidateKeys(g, keys \ {node}, o.visited, o.recursion_stack,
                                    o.found_deadlocks) :
                       o \in ValidateNode(g, node, vis, stack, found, <<>>)} :
                node \in keys}

\* the counts validate_dependency_graph(graph) can return
validate_dependency_graph(g) == ValidateKeys(g, DOMAIN g, <<>>, <<>>, 0)

(***************************************************************************)
(* analyze_trace after the decoder returned (analyzer.rs 106-178)          *)
(***************************************************************************)
Finish ==
    /\ pc = "post"
    /\ IF arguments.graph
       THEN graphviz_locks' = lockgraph /\ lockgraph' = {}
       ELSE UNCHANGED <<graphviz_locks, lockgraph>>
    /\ IF arguments.lock_dependencies
       THEN /\ graph' = ThreadGraph(lock_dependencies, 1, <<>>)
            /\ found_deadlocks' \in validate_dependency_graph(graph')
       ELSE UNCHANGED <<graph, found_deadlocks>>
    /\ result' = Some(Returned(errors))
    /\ pc' = "done"
    /\ UNCHANGED <<arguments, file_extension, errors, locks, row, lock_dependencies,
                   consumed, analyzed, event_buffer, reads, search>>

Next ==
    \/ Open
    \/ StdLine
    \/ StdEof
    \/ RapidHeader
    \/ RapidRecord
    \/ RapidEof
    \/ Finish

Spec == Init /\ [][Next]_vars

(***************************************************************************)
(* The same program on traces that use every operation, without the        *)
(* normalizer                                                              *)
(***************************************************************************)
InitOperations == Init /\ ~arguments.normalize

StdOperationLine == StdLineOf(OperationLines, MaxRows)

RapidOperationRecord == RapidRecordOf(OperationRecords, MaxRows)

NextOperations ==
    \/ Open
    \/ StdOperationLine
    \/ StdEof
    \/ RapidHeader
    \/ RapidOperationRecord
    \/ RapidEof
    \/ Finish

SpecOperations == InitOperations /\ [][NextOperations]_vars

(***************************************************************************)
(* The same program with both graphs requested, without the normalizer, on *)
(* longer traces of acquire and release events                             *)
(***************************************************************************)
InitGraphs ==
    Init /\ arguments.graph /\ arguments.lock_dependencies /\ ~arguments.normalize

StdLockLine == StdLineOf(LockLines, MaxLockRows)

RapidLockRecord == RapidRecordOf(LockRecords, MaxLockRows)

NextGraphs ==
    \/ Open
    \/ StdLockLine
    \/ StdEof
    \/ RapidHeader
    \/ RapidLockRecord
    \/ RapidEof
    \/ Finish

SpecGraphs == InitGraphs /\ [][NextGraphs]_vars

(***************************************************************************)
(* The same program on short traces that exercise the two decoders: lines  *)
(* with bare and typed operands and lines that do not fit the grammar,     *)
(* with and without the normalizer, and records of every operation         *)
(***************************************************************************)
InitDecode == Init /\ ~arguments.graph /\ ~arguments.lock_dependencies

StdDecodeLine == StdLineOf(DecodeLines, MaxDecodeRows)

RapidDecodeRecord == RapidRecordOf(OperationRecords, MaxDecodeRows)

NextDecode ==
    \/ Open
    \/ StdDecodeLine
    \/ StdEof
    \/ RapidHeader
    \/ RapidDecodeRecord
    \/ RapidEof
    \/ Finish

SpecDecode == InitDecode /\ [][NextDecode]_vars

(***************************************************************************)
(* validate_dependency_graph on its own (analyzer.rs 562-578): every graph *)
(* over three nodes, with or without self-loops, keys without children and *)
(* children that are no keys; one step per iteration of the loop           *)
(***************************************************************************)
GraphNodes == {1, 2, 3}

Graphs == UNION {[keys -> SUBSET GraphNodes] : keys \in SUBSET GraphNodes}

InitValidate ==
    /\ arguments = [normalize |-> FALSE, graph |-> FALSE, lock_dependencies |-> TRUE]
    /\ file_extension = None
    /\ pc = "validate"
    /\ errors = <<>>
    /\ locks = <<>>
    /\ row = 1
    /\ lockgraph = {}
    /\ lock_dependencies = <<>>
    /\ graphviz_locks = {}
    /\ result = None
    /\ consumed = 0
    /\ analyzed = <<>>
    /\ event_buffer = {}
    /\ std_line = None
    /\ trailing = 0
    /\ graph \in Graphs
    /\ visited = <<>>
    /\ recursion_stack = <<>>
    /\ keys_left = DOMAIN graph
    /\ entered = <<>>
    /\ found_deadlocks = 0

\* one iteration of for node in graph.keys()
ValidateKey ==
    /\ pc = "validate"
    /\ \E node \in keys_left :
          \E o \in ValidateNode(graph, node, visited, recursion_stack, found_deadlocks,
                                 entered) :
              /\ visited' = o.visited
              /\ entered' = o.calls
              /\ recursion_stack' = o.recursion_stack
              /\ found_deadlocks' = o.found_deadlocks
              /\ keys_left' = keys_left \ {node}
    /\ UNCHANGED <<arguments, file_extension, pc, errors, locks, row, lockgraph,
                   lock_dependencies, graphviz_locks, result, consumed, analyzed,
                   event_buffer, reads, graph>>

\* the loop is over: found_deadlocks is returned
ValidateReturn ==
    /\ pc = "validate"
    /\ keys_left = {}
    /\ pc' = "validated"
    /\ UNCHANGED <<arguments, file_extension, errors, locks, row, lockgraph,
                   lock_dependencies, graphviz_locks, result, consumed, analyzed,
                   event_buffer, reads, graph, search, found_deadlocks>>

NextValidate ==
    \/ ValidateKey
    \/ ValidateReturn

SpecValidate == InitValidate /\ [][NextValidate]_vars

\* the loop over the keys is not suspended: the function runs to its return
SpecValidateFair == SpecValidate /\ WF_vars(NextValidate)

(***************************************************************************)
(* Properties                                                              *)
(***************************************************************************)
\* the violations analyze_event reports
ViolationKinds ==
    {"RepeatedAcquisition", "RepeatedRelease", "ReleasedNonOwningLock",
     "ReleasedNonAcquiredLock"}

\* the errors a failed decode of a textual line records
DecodeErrorKinds == {"IOError", "LexerError", "ParserError"}

\* the row a violation carries
RowOf(e) == IF e.kind = "RepeatedRelease" THEN e.attempted ELSE e.row

\* the entry analyzed gains in this step (meaningful when EventStep holds)
LastAnalyzed == analyzed[Len(analyzed)]

\* this step gave one event to analyze_event
EventStep == analyzed' # analyzed

\* this step gave an Acquire / a Release to analyze_event
AcquireStep == EventStep /\ LastAnalyzed'.event.operation = "Acquire"
ReleaseStep == EventStep /\ LastAnalyzed'.event.operation = "Release"

\* lock l is held by a thread other than t
HeldByOther(l, t) ==
    /\ l \in DOMAIN locks
    /\ locks[l].locked
    /\ locks[l].owner # None
    /\ locks[l].owner # Some(t)

\* C1: after any prefix of any event sequence every lock entry has
\* locked = TRUE exactly when its owner is Some
C1_LockedIffOwner ==
    \A l \in DOMAIN locks : locks[l].locked <=> is_some(locks[l].owner)

\* a held lock and a released lock exist side by side
C1_Witness ==
    \E l1, l2 \in DOMAIN locks :
        /\ locks[l1].locked /\ is_some(locks[l1].owner)
        /\ ~locks[l2].locked /\ ~is_some(locks[l2].owner)

\* C2: Acquire(T, L) at row r reports RepeatedAcquisition{L, T, o, r} exactly
\* when, just before the event, L is held by an owner o other than T; in
\* every other state it reports nothing
C2_RepeatedAcquisitionExactly ==
    [][AcquireStep =>
        LET e == LastAnalyzed'
            T == e.event.thread_identifier
            L == unwrap(e.event.operand.id)
        IN  IF HeldByOther(L, T)
            THEN errors' = Append(errors,
                     [kind |-> "RepeatedAcquisition", lock_id |-> L, thread_id |-> T,
                      owner_id |-> unwrap(locks[L].owner), row |-> e.row])
            ELSE errors' = errors]_vars

\* a RepeatedAcquisition was reported, and an acquire of a held lock by its
\* owner was not
C2_Witness ==
    /\ \E i \in 1..Len(errors) : errors[i].kind = "RepeatedAcquisition"
    /\ \E i, j \in 1..Len(analyzed) :
          /\ i < j
          /\ analyzed[i].event = analyzed[j].event
          /\ analyzed[i].event.operation = "Acquire"
          /\ \A k \in 1..Len(errors) : RowOf(errors[k]) # analyzed[j].row

\* C3 as stated: after every Acquire(T, L) at row r, also a rejected one,
\* the state of L is {owner = Some(T), locked = TRUE, row = r}
C3_Original ==
    [][AcquireStep =>
        LET e == LastAnalyzed'
            L == unwrap(e.event.operand.id)
        IN  /\ L \in DOMAIN locks'
            /\ locks'[L] = [owner |-> Some(e.event.thread_identifier),
                            locked |-> TRUE, row |-> e.row]]_vars

\* C3 amended: an Acquire(T, L) at row r that reports no violation leaves L
\* as {owner = Some(T), locked = TRUE, row = r}; an Acquire that reports
\* RepeatedAcquisition leaves the lock map as it was
C3_AcquireSetsOwnerUnlessRejected ==
    [][AcquireStep =>
        LET e == LastAnalyzed'
            L == unwrap(e.event.operand.id)
        IN  IF errors' = errors
            THEN /\ L \in DOMAIN locks'
                 /\ locks'[L] = [owner |-> Some(e.event.thread_identifier),
                                 locked |-> TRUE, row |-> e.row]
                 /\ \A l \in DOMAIN locks' \ {L} : l \in DOMAIN locks /\ locks'[l] = locks[l]
            ELSE locks' = locks]_vars

\* after a rejected acquire the lock still belongs to the earlier owner, with
\* the row of the earlier acquire
C3_Witness ==
    \E i \in 1..Len(errors) :
        /\ errors[i].kind = "RepeatedAcquisition"
        /\ locks[errors[i].lock_id].owner = Some(errors[i].owner_id)
        /\ locks[errors[i].lock_id].row < errors[i].row
        /\ \E k \in 1..Len(analyzed) :
              /\ analyzed[k].row = locks[errors[i].lock_id].row
              /\ analyzed[k].event.operation = "Acquire"
              /\ analyzed[k].event.thread_identifier = errors[i].owner_id

\* the events on lock l that changed its state: those analyzed without a
\* violation
Transitions(l) ==
    {k \in 1..Len(analyzed) :
        /\ analyzed[k].event.operation \in {"Acquire", "Release"}
        /\ unwrap(analyzed[k].event.operand.id) = l
        /\ \A i \in 1..Len(errors) : RowOf(errors[i]) # analyzed[k].row}

\* the row of the last state transition of lock l (0 when there is none)
LastTransitionRow(l) ==
    IF Transitions(l) = {} THEN 0
    ELSE analyzed[CHOOSE k \in Transitions(l) : \A j \in Transitions(l) : j <= k].row

\* C4: Release(T, L) at row r has exactly one outcome, by priority: L never
\* seen -> ReleasedNonAcquiredLock{r}; else L free -> RepeatedRelease{r,
\* row of L's last transition}; else owner o # T -> ReleasedNonOwningLock{r,
\* o}; else no violation and L becomes {None, FALSE, r}
C4_ReleaseOutcome ==
    [][ReleaseStep =>
        LET e == LastAnalyzed'
            T == e.event.thread_identifier
            L == unwrap(e.event.operand.id)
            r == e.row
        IN  IF L \notin DOMAIN locks
            THEN errors' = Append(errors, [kind |-> "ReleasedNonAcquiredLock",
                               row |-> r, lock_id |-> L, thread_id |-> T])
            ELSE IF ~locks[L].locked
            THEN errors' = Append(errors, [kind |-> "RepeatedRelease",
                               attempted |-> r, previous |-> LastTransitionRow(L),
                               lock_id |-> L, thread_id |-> T])
            ELSE IF locks[L].owner # Some(T)
            THEN errors' = Append(errors, [kind |-> "ReleasedNonOwningLock",
                               row |-> r, lock_id |-> L, thread_id |-> T,
                               owner |-> unwrap(locks[L].owner)])
            ELSE /\ errors' = errors
                 /\ locks'[L] = [owner |-> None, locked |-> FALSE, row |-> r]]_vars

\* a lock was acquired, released, and released again
C4_Witness ==
    \E i \in 1..Len(errors) :
        /\ errors[i].kind = "RepeatedRelease"
        /\ errors[i].previous > 1
        /\ errors[i].previous < errors[i].attempted

\* C5: a Release that reports a violation leaves the lock map unchanged: no
\* entry is created and every lock keeps owner, locked flag and row
C5_RejectedReleaseKeepsLocks ==
    [][(ReleaseStep /\ errors' # errors) => locks' = locks]_vars

\* a rejected release of an unseen lock created no entry, or a rejected
\* release by a non-owner left the lock with its owner and acquire row
C5_Witness ==
    \/ \E i \in 1..Len(errors) :
          /\ errors[i].kind = "ReleasedNonAcquiredLock"
          /\ errors[i].lock_id \notin DOMAIN locks
    \/ \E i \in 1..Len(errors) :
          /\ errors[i].kind = "ReleasedNonOwningLock"
          /\ errors[i].lock_id \in DOMAIN locks
          /\ locks[errors[i].lock_id].owner = Some(errors[i].owner)
          /\ locks[errors[i].lock_id].row < errors[i].row

\* the rows of the Acquire events on lock l analyzed so far
AcquireRows(l) ==
    {analyzed[k].row : k \in {j \in 1..Len(analyzed) :
        /\ analyzed[j].event.operation = "Acquire"
        /\ unwrap(analyzed[j].event.operand.id) = l}}

\* C6: ReleasedNonAcquiredLock for lock L at row r is reported only if no
\* Acquire on L was analyzed before row r, and every Release on L without an
\* earlier Acquire on L reports it
C6_NonAcquiredIffNoEarlierAcquire ==
    /\ \A i \in 1..Len(errors) :
          errors[i].kind = "ReleasedNonAcquiredLock" =>
              \A a \in AcquireRows(errors[i].lock_id) : a >= errors[i].row
    /\ \A k \in 1..Len(analyzed) :
          (/\ analyzed[k].event.operation = "Release"
           /\ \A a \in AcquireRows(unwrap(analyzed[k].event.operand.id)) :
                 a >= analyzed[k].row)
          => \E i \in 1..Len(errors) :
                /\ errors[i].kind = "ReleasedNonAcquiredLock"
                /\ errors[i].row = analyzed[k].row
                /\ errors[i].lock_id = unwrap(analyzed[k].event.operand.id)

\* a never-acquired lock was released twice and both releases were reported
C6_Witness ==
    \E i, j \in 1..Len(errors) :
       /\ i < j
       /\ errors[i].kind = "ReleasedNonAcquiredLock"
       /\ errors[j].kind = "ReleasedNonAcquiredLock"
       /\ errors[i].lock_id = errors[j].lock_id

\* C7: in a textual trace the k-th event is analyzed with row = k whether
\* or not earlier events were violations, and the row of every violation is
\* the index of the offending event
C7_StdRowIsEventIndex ==
    file_extension = Some("std") =>
        /\ \A k \in 1..Len(analyzed) : analyzed[k].row = k /\ analyzed[k].pos = k
        /\ \A i \in 1..Len(errors) :
              errors[i].kind \in ViolationKinds =>
                  /\ RowOf(errors[i]) \in 1..Len(analyzed)
                  /\ analyzed[RowOf(errors[i])].event.thread_identifier = errors[i].thread_id
                  /\ unwrap(analyzed[RowOf(errors[i])].event.operand.id) = errors[i].lock_id
                  /\ analyzed[RowOf(errors[i])].event.operation =
                        IF errors[i].kind = "RepeatedAcquisition" THEN "Acquire"
                        ELSE "Release"

\* three events of a textual trace were analyzed, the first one a violation
C7_Witness ==
    /\ file_extension = Some("std")
    /\ Len(analyzed) = 3
    /\ analyzed[3].row = 3
    /\ \E i \in 1..Len(errors) : errors[i].kind \in ViolationKinds /\ RowOf(errors[i]) = 1

\* C8: in a binary trace a record with an unknown operation id is skipped
\* without a violation and the row counter still advances, so the record at
\* physical position k is analyzed with row = k
C8_RapidRowIsRecordPosition ==
    file_extension = Some("data") =>
        /\ row = consumed + 1
        /\ \A k \in 1..Len(analyzed) : analyzed[k].row = analyzed[k].pos

\* C9: a violation never stops the run: every decodable event is analyzed,
\* each event appends at most one violation, and the list holds the
\* violations in event order with strictly increasing rows
C9_ViolationsNeverStop ==
    /\ [](pc = "std" => Len(analyzed) = consumed)
    /\ [](pc \in {"std", "rapid"} =>
            /\ \A i \in 1..Len(errors) : errors[i].kind \in ViolationKinds
            /\ \A i, j \in 1..Len(errors) : i < j => RowOf(errors[i]) < RowOf(errors[j])
            /\ \A i \in 1..Len(errors) :
                  \E k \in 1..Len(analyzed) : analyzed[k].row = RowOf(errors[i]))
    /\ [][EventStep =>
            /\ pc' = pc
            /\ \/ errors' = errors
               \/ /\ Len(errors') = Len(errors) + 1
                  /\ SubSeq(errors', 1, Len(errors)) = errors
                  /\ errors'[Len(errors')].kind \in ViolationKinds
                  /\ RowOf(errors'[Len(errors')]) = LastAnalyzed'.row]_vars

\* three events in a row were violations and the decoder loop is still
\* running
C9_Witness ==
    /\ pc = "std"
    /\ Len(errors) = 3
    /\ Len(analyzed) = 3

\* this step read a textual line whose decoding failed
DecodeFailStep ==
    /\ pc = "std"
    /\ consumed' = consumed + 1
    /\ analyzed' = analyzed
    /\ pc' # "panic"

\* C10: when decoding a textual line fails, exactly one decode error is
\* appended after the violations accumulated so far, the lock map stays as
\* the last decoded event left it, and no later line is read or analyzed
C10_DecodeErrorEndsStream ==
    /\ [][DecodeFailStep =>
            /\ Len(errors') = Len(errors) + 1
            /\ SubSeq(errors', 1, Len(errors)) = errors
            /\ errors'[Len(errors')].kind \in DecodeErrorKinds
            /\ locks' = locks
            /\ row' = row
            /\ pc' = "post"]_vars
    /\ [][(file_extension = Some("std") /\ pc \in {"post", "done"}) =>
            /\ consumed' = consumed
            /\ analyzed' = analyzed
            /\ locks' = locks
            /\ errors' = errors
            /\ pc' \in {"post", "done"}]_vars

\* a run that recorded a violation and then a decode error, and is over
C10_Witness ==
    /\ file_extension = Some("std")
    /\ pc = "done"
    /\ Len(errors) = 2
    /\ errors[1].kind \in ViolationKinds
    /\ errors[2].kind \in DecodeErrorKinds
    /\ DOMAIN locks # {}

\* C11: analyze_trace returns Ok exactly when the violation list is empty
\* at the end of the run, and otherwise returns the whole list: the list
\* only grows, every error analyze_event reports is appended to it, and
\* the returned list is the accumulated one
C11_ReturnsCompleteList ==
    /\ [](pc = "done" =>
            /\ is_some(result)
            /\ unwrap(result).tag = "Ok" <=> errors = <<>>
            /\ unwrap(result).tag \in {"Ok", "Err"}
            /\ unwrap(result).errors = errors)
    /\ [][/\ Len(errors') >= Len(errors)
          /\ SubSeq(errors', 1, Len(errors)) = errors]_vars
    /\ [][EventStep =>
            LET a == analyze_event(arguments, LastAnalyzed'.event, locks,
                                   LastAnalyzed'.row, lockgraph, lock_dependencies)
            IN  errors' = IF is_some(a.result)
                          THEN Append(errors, unwrap(a.result))
                          ELSE errors]_vars

\* a run that ended with two violations and returned both
C11_Witness ==
    /\ pc = "done"
    /\ Len(errors) = 2
    /\ \A i \in 1..2 : errors[i].kind \in ViolationKinds
    /\ unwrap(result).tag = "Err"
    /\ Len(unwrap(result).errors) = 2

\* C12: once the file is open, extension std starts the textual decoder and
\* extension data the binary decoder; with any other or no extension the
\* run records UnsupportedFileExtension, reads and analyzes nothing, and
\* returns a failure whose list contains that violation
C12_ExtensionSelectsDecoder ==
    /\ [][(pc = "open" /\ pc' # "done") =>
            \/ file_extension' = Some("std") /\ pc' = "std" /\ errors' = errors
            \/ file_extension' = Some("data") /\ pc' = "header" /\ errors' = errors
            \/ /\ file_extension' \notin {Some("std"), Some("data")}
               /\ pc' = "post"
               /\ errors' = <<[kind |-> "UnsupportedFileExtension"]>>]_vars
    /\ []((pc = "post" /\ file_extension \notin {Some("std"), Some("data")}) =>
            /\ consumed = 0
            /\ analyzed = <<>>
            /\ errors = <<[kind |-> "UnsupportedFileExtension"]>>)
    /\ [][(pc = "post" /\ file_extension \notin {Some("std"), Some("data")}) =>
            /\ pc' = "done"
            /\ analyzed' = <<>>
            /\ unwrap(result').tag = "Err"
            /\ \E i \in 1..Len(unwrap(result').errors) :
                  unwrap(result').errors[i].kind = "UnsupportedFileExtension"]_vars

\* a run on a file without extension that ended in failure
C12_Witness ==
    /\ pc = "done"
    /\ file_extension = None
    /\ consumed = 0
    /\ unwrap(result) = [tag |-> "Err",
                         errors |-> <<[kind |-> "UnsupportedFileExtension"]>>]

\* the operations analyze_event does not act on
OtherOperations ==
    {"Read", "Write", "Fork", "Join", "Request", "Begin", "End", "Branch"}

\* C13: an event whose operation is Read, Write, Fork, Join, Request,
\* Begin, End or Branch leaves the lock map, the dependency list, the
\* lock-graph edge set and the violation list as they were, and the row
\* counter advances by one
C13_OtherOperationsChangeRowOnly ==
    [][(EventStep /\ LastAnalyzed'.event.operation \in OtherOperations) =>
          /\ locks' = locks
          /\ lock_dependencies' = lock_dependencies
          /\ lockgraph' = lockgraph
          /\ errors' = errors
          /\ row' = row + 1]_vars

\* a Request of a lock that another thread holds is the last event, after a
\* violation; the trace inputs cover each of the eight operations
C13_Witness ==
    /\ Len(analyzed) = 3
    /\ LastAnalyzed.event.operation = "Request"
    /\ errors # <<>>
    /\ \E l \in DOMAIN locks :
          /\ l = unwrap(LastAnalyzed.event.operand.id)
          /\ locks[l].locked
          /\ locks[l].owner # Some(LastAnalyzed.event.thread_identifier)
    /\ \A op \in OtherOperations :
          \/ \E raw \in OperationRecords :
                /\ is_some(try_parse_event(raw))
                /\ unwrap(try_parse_event(raw)).operation = op
          \/ \E line \in OperationLines :
                /\ DecodeLine(line, FALSE).status = "ok"
                /\ DecodeLine(line, FALSE).event.operation = op

\* C14: with dependency extraction enabled, after any prefix of any trace
\* no two records of the dependency list have the same thread_id, lock_id
\* and acquired_locks
C14_NoDuplicateDependency ==
    arguments.lock_dependencies =>
        \A i, j \in 1..Len(lock_dependencies) :
            (/\ lock_dependencies[i].thread_id = lock_dependencies[j].thread_id
             /\ lock_dependencies[i].lock_id = lock_dependencies[j].lock_id
             /\ lock_dependencies[i].acquired_locks = lock_dependencies[j].acquired_locks)
            => i = j

\* a thread acquired, released and acquired the same lock, holding nothing
\* else: the second acquire found the record of the first
C14_Witness ==
    /\ arguments.lock_dependencies
    /\ Len(analyzed) = 3
    /\ analyzed[1].event.operation = "Acquire"
    /\ analyzed[2].event.operation = "Release"
    /\ analyzed[3].event = analyzed[1].event
    /\ analyzed[2].event.thread_identifier = analyzed[1].event.thread_identifier
    /\ analyzed[2].event.operand = analyzed[1].event.operand
    /\ errors = <<>>
    /\ Len(lock_dependencies) = 1

\* C15: with dependency extraction enabled, after a Release of lock L by
\* thread T no dependency record of T has L in its acquired_locks
C15_ReleaseClearsLockFromRecords ==
    [][(ReleaseStep /\ arguments.lock_dependencies) =>
          \A i \in 1..Len(lock_dependencies') :
              lock_dependencies'[i].thread_id = LastAnalyzed'.event.thread_identifier
              => unwrap(LastAnalyzed'.event.operand.id)
                    \notin lock_dependencies'[i].acquired_locks]_vars

\* thread t holds lock l in the lock map
Holds(t, l) ==
    /\ l \in DOMAIN locks
    /\ locks[l].locked
    /\ locks[l].owner = Some(t)

\* C16: with the graph flag set, the lock-graph edge set is empty before
\* the first event, gains at an Acquire of l2 by thread T exactly the edges
\* (l1, l2) for the locks l1 that T holds just before the event, changes at
\* no other event, and is written out whole when the trace has ended: it is
\* the set of pairs (l1, l2) backed by a processed Acquire of l2 by a
\* thread that held l1
C16_EdgesAreHeldThenAcquired ==
    /\ [](analyzed = <<>> => lockgraph = {})
    /\ [][(AcquireStep /\ arguments.graph) =>
            lockgraph' = lockgraph \cup
                {[from |-> l1, to |-> unwrap(LastAnalyzed'.event.operand.id)] :
                    l1 \in {l \in DOMAIN locks :
                              Holds(LastAnalyzed'.event.thread_identifier, l)}}]_vars
    /\ [][(~AcquireStep /\ pc # "post") => lockgraph' = lockgraph]_vars
    /\ [][(pc = "post" /\ arguments.graph) => graphviz_locks' = lockgraph]_vars

\* an Acquire that was rejected has added an edge between two locks
C16_Witness ==
    /\ arguments.graph
    /\ pc \in {"std", "rapid"}
    /\ Len(analyzed) = 3
    /\ LastAnalyzed.event.operation = "Acquire"
    /\ Len(errors) = 1
    /\ errors[1].kind = "RepeatedAcquisition"
    /\ lockgraph = {[from |-> l, to |-> unwrap(LastAnalyzed.event.operand.id)] :
                       l \in {k \in DOMAIN locks :
                                Holds(LastAnalyzed.event.thread_identifier, k)}}
    /\ \E e \in lockgraph : e.from # e.to

\* the edges (A, B) of the thread graph
GraphEdges(g) == {<<a, b>> \in UNION {{a} \X g[a] : a \in DOMAIN g} : TRUE}

\* record o of another thread holds the lock record e asks for, and the two
\* share no held lock
Chains(e, o) ==
    /\ e.thread_id # o.thread_id
    /\ o.acquired_locks \cap e.acquired_locks = {}
    /\ e.lock_id \in o.acquired_locks

\* C17: the thread graph built from the dependency list has the edge
\* (A, B) exactly when there are records e of A and o of B, A # B, with
\* disjoint acquired_locks and e.lock_id in o.acquired_locks; it has no
\* self-loop, and two records that share a held lock give no edge
C17_ThreadGraphEdges ==
    (pc = "done" /\ arguments.lock_dependencies) =>
        /\ GraphEdges(graph) =
              {<<lock_dependencies[i].thread_id, lock_dependencies[j].thread_id>> :
                  <<i, j>> \in {p \in (1..Len(lock_dependencies)) \X (1..Len(lock_dependencies)) :
                                  Chains(lock_dependencies[p[1]], lock_dependencies[p[2]])}}
        /\ \A a \in DOMAIN graph : a \notin graph[a] /\ graph[a] # {}

\* a finished run whose thread graph has an edge, and whose dependency
\* list has two records of different threads that share a held lock, the
\* first asking for a lock the second holds
C17_Witness ==
    /\ pc = "done"
    /\ arguments.lock_dependencies
    /\ GraphEdges(graph) # {}
    /\ \E i, j \in 1..Len(lock_dependencies) :
          /\ lock_dependencies[i].thread_id # lock_dependencies[j].thread_id
          /\ lock_dependencies[i].acquired_locks
                \cap lock_dependencies[j].acquired_locks # {}
          /\ lock_dependencies[i].lock_id \in lock_dependencies[j].acquired_locks

\* the nodes reachable from the set S by zero or more edges
RECURSIVE ReachFrom(_, _)
ReachFrom(g, S) ==
    LET T == S \cup UNION {g[a] : a \in S \cap DOMAIN g}
    IN  IF T = S THEN S ELSE ReachFrom(g, T)

\* the graph has a directed cycle: some node is reachable from its children
HasCycle(g) == \E a \in DOMAIN g : a \in ReachFrom(g, g[a])

\* C18: for every graph, the count validate_dependency_graph returns is
\* greater than zero if and only if the graph has a directed cycle,
\* whatever the order in which the keys and the children are iterated
C18_CountPositiveIffCycle ==
    /\ pc = "validated" => (found_deadlocks > 0 <=> HasCycle(graph))
    /\ (pc = "validate" /\ keys_left = DOMAIN graph) =>
          \A n \in validate_dependency_graph(graph) : n > 0 <=> HasCycle(graph)

\* the search is over for a graph with a cycle through all three nodes and
\* no self-loop, and has counted it
C18_Witness ==
    /\ pc = "validated"
    /\ found_deadlocks > 0
    /\ \A a \in GraphNodes : a \in DOMAIN graph /\ a \notin graph[a]
    /\ \A a \in GraphNodes : ReachFrom(graph, graph[a]) = GraphNodes
    /\ \E a \in GraphNodes : Cardinality(graph[a]) = 2

\* the field of the given width that starts at bit shift of a record
Field(raw, shift, width) ==
    BitsValue({b - shift : b \in raw \cap (shift..(shift + width - 1))})

\* this step read one 8-byte record
RecordStep == pc = "rapid" /\ consumed' = consumed + 1

\* C19: the event decoded from a 64-bit record has thread = bits 0..9,
\* operation id = bits 10..13, operand = bits 14..47 and location = bits
\* 48..62 of the record, and a record is skipped exactly when bits 10..13
\* are no operation id
C19_FieldsByLayout ==
    [][RecordStep =>
          LET raw == event_buffer'
              operation == OperationNew(Field(raw, 10, 4))
          IN  IF ~is_some(operation) THEN analyzed' = analyzed
              ELSE /\ EventStep
                   /\ LastAnalyzed'.event =
                         [thread_identifier |-> Field(raw, 0, 10),
                          operation |-> unwrap(operation),
                          operand |-> OperandNew(unwrap(operation), Field(raw, 14, 34)),
                          loc |-> Field(raw, 48, 15)]]_vars

\* the set bits of a number below 2^16
BitsOf(n) == {b \in 0..15 : (n \div 2^b) % 2 = 1}

\* the id of an operation in the binary format
OperationId(operation) == CHOOSE v \in 0..9 : OperationNew(v) = Some(operation)

\* the 8-byte record that holds an event in the layout thread = bits 0..9,
\* operation id = bits 10..13, operand = bits 14..47, location = bits 48..62
Encode(event) ==
    {b : b \in BitsOf(event.thread_identifier)}
    \cup {10 + b : b \in BitsOf(OperationId(event.operation))}
    \cup {14 + b : b \in BitsOf(unwrap(event.operand.id))}
    \cup {48 + b : b \in BitsOf(event.loc)}

\* how often each element occurs in a sequence
MultisetOf(seq) ==
    [x \in {seq[i] : i \in DOMAIN seq} |-> Cardinality({i \in DOMAIN seq : seq[i] = x})]

\* C20: when a textual trace of acquire and release events has been
\* analyzed, analyzing the binary trace that holds the same events yields
\* the same multiset of violations
C20_TextAndBinaryAgree ==
    (/\ pc = "done"
     /\ file_extension = Some("std")
     /\ Len(analyzed) = consumed
     /\ \A i \in DOMAIN analyzed : analyzed[i].event.operation \in {"Acquire", "Release"}) =>
        MultisetOf(errors) =
            MultisetOf(analyze_rapid_trace(arguments,
                                           [i \in DOMAIN analyzed |-> Encode(analyzed[i].event)],
                                           1, <<>>, <<>>, 1, {}, <<>>))

\* C21: when a binary trace runs out of input, on a record boundary or
\* inside a record, decoding ends without a violation for the short read:
\* every complete record that decodes to an event was analyzed when it was
\* read, the step that meets the end of input changes neither the
\* violation list nor the analysis state, and nothing is analyzed after it
C21_ShortReadEndsCleanly ==
    /\ [][RecordStep =>
            (is_some(try_parse_event(event_buffer')) =>
                /\ EventStep
                /\ LastAnalyzed'.event = unwrap(try_parse_event(event_buffer'))
                /\ LastAnalyzed'.pos = consumed')]_vars
    /\ [][(pc = "rapid" /\ pc' # "rapid") =>
            /\ pc' = "post"
            /\ errors' = errors
            /\ analyzed' = analyzed
            /\ consumed' = consumed
            /\ locks' = locks
            /\ row' = row
            /\ lockgraph' = lockgraph
            /\ lock_dependencies' = lock_dependencies]_vars
    /\ [][(file_extension = Some("data") /\ pc \in {"post", "done"}) =>
            /\ analyzed' = analyzed
            /\ errors' = errors]_vars
    /\ [](file_extension = Some("data") =>
            \A i \in 1..Len(errors) : errors[i].kind \in ViolationKinds)

\* a binary run that ended inside a record after two analyzed records, one
\* of them a violation
C21_Witness ==
    /\ file_extension = Some("data")
    /\ pc = "done"
    /\ trailing > 0
    /\ Len(analyzed) = 2
    /\ Len(errors) = 1

\* this step read one line of a textual trace
LineStep == pc = "std" /\ consumed' = consumed + 1

\* the kinds of the tokens of a line
KindsOf(tokens) == [i \in DOMAIN tokens |-> tokens[i].t]

\* the operand type each operator of the textual format expects
OperandTagOf(op) ==
    CASE op \in {"Read", "Write"} -> "MemoryLocation"
      [] op \in {"Fork", "Join"} -> "ThreadIdentifier"
      [] op \in {"Acquire", "Release", "Request"} -> "LockIdentifier"
      [] OTHER -> "None"

\* Thread | op ( integer ) | integer
IsBareLine(tokens) ==
    /\ Len(tokens) = 8
    /\ tokens[3].t \in {"Write", "Read", "Fork", "Join", "Request", "Acquire", "Release"}
    /\ KindsOf(tokens) = <<"ThreadIdentifier", "Pipe", tokens[3].t, "LeftParenthesis",
                           "LineNumber", "RightParenthesis", "Pipe", "LineNumber">>

\* C22: with normalization enabled, a line Thread | op ( integer ) | integer
\* is rewritten with the integer operand re-tagged by the operator and every
\* other token kept in order, and the result parses to the event with that
\* thread, operation, typed operand and location
C22_BareOperandRetagged ==
    [][(LineStep /\ arguments.normalize /\ ~unwrap(std_line').io
            /\ IsBareLine(unwrap(std_line').source)) =>
          LET tokens == unwrap(std_line').source
              typed == TokV(OperandTagOf(tokens[3].t), tokens[5].v)
          IN  /\ normalize_tokens(tokens) =
                    [panic |-> FALSE, tokens |-> [tokens EXCEPT ![5] = typed]]
              /\ EventStep
              /\ LastAnalyzed'.event =
                    [thread_identifier |-> tokens[1].v,
                     operation |-> tokens[3].t,
                     operand |-> [tag |-> typed.t, id |-> Some(typed.v)],
                     loc |-> tokens[8].v]]_vars

\* the line T6|req(8)|59 was normalized and analyzed as a Request of lock 8
C22_Witness ==
    /\ arguments.normalize
    /\ is_some(std_line)
    /\ unwrap(std_line).source = EventLine(6, "Request", TokV("LineNumber", 8))
    /\ Len(analyzed) = 1
    /\ analyzed[1].event.operation = "Request"
    /\ analyzed[1].event.operand = [tag |-> "LockIdentifier", id |-> Some(8)]

\* the token kinds of the grammar ThreadIdentifier Pipe Operation
\* LeftParenthesis Operand RightParenthesis Pipe LineNumber, by position
Grammar ==
    <<{"ThreadIdentifier"}, {"Pipe"},
      {"Read", "Write", "Acquire", "Request", "Release", "Fork", "Join"},
      {"LeftParenthesis"},
      {"MemoryLocation", "LockIdentifier", "ThreadIdentifier"},
      {"RightParenthesis"}, {"Pipe"}, {"LineNumber"}>>

\* the tokens match the grammar
Matches(tokens) ==
    /\ Len(tokens) = 8
    /\ \A i \in 1..8 : tokens[i].t \in Grammar[i]

\* the 0-based index of the first token that does not fit: a token of a
\* wrong kind, the end of a line that is too short, or the ninth token
FirstBad(tokens) ==
    CHOOSE p \in 0..8 :
        /\ \A q \in 1..p : q <= Len(tokens) /\ tokens[q].t \in Grammar[q]
        /\ \/ p = 8
           \/ p >= Len(tokens)
           \/ tokens[p + 1].t \notin Grammar[p + 1]

\* C23: without the normalizer, a line whose tokens match the grammar
\* ThreadIdentifier Pipe Operation LeftParenthesis Operand RightParenthesis
\* Pipe LineNumber is accepted and its event analyzed; any other line of
\* tokens gives a ParserError whose location is the 0-based index of the
\* first token that does not fit and whose expected set is the set of
\* tokens the grammar allows at that index (EOF after the eighth token)
C23_ParserAcceptsGrammarOnly ==
    [][(LineStep /\ ~arguments.normalize /\ ~unwrap(std_line').io
            /\ LexOk(unwrap(std_line').source)) =>
          LET tokens == unwrap(std_line').source
          IN  IF Matches(tokens)
              THEN EventStep /\ pc' = "std"
              ELSE /\ ~EventStep
                   /\ pc' = "post"
                   /\ errors' = Append(errors,
                         [kind |-> "ParserError",
                          location |-> FirstBad(tokens),
                          expected |-> IF FirstBad(tokens) = 8 THEN {"EOF"}
                                       ELSE Grammar[FirstBad(tokens) + 1]])]_vars

\* the line with a second Write after the operator was rejected at
\* location 3, where a left parenthesis is expected
C23_Witness ==
    /\ ~arguments.normalize
    /\ is_some(std_line)
    /\ unwrap(std_line).source = DoubleWriteLine
    /\ pc = "post"
    /\ errors = <<[kind |-> "ParserError", location |-> 3,
                   expected |-> {"LeftParenthesis"}]>>

\* the locks thread t holds in the lock map
HeldBy(t) == {l \in DOMAIN locks : Holds(t, l)}

\* C24: with dependency extraction enabled, an Acquire of L by T at row r
\* appends the record {T, L, held, r}, held being the locks locked with
\* owner T before the acquire takes effect, exactly when no record has the
\* same (T, L, held); no other step changes the list and no stored record
\* changes, so every record keeps the row of the acquire that created it
C24_DependencyRecordedOnce ==
    /\ [][(AcquireStep /\ arguments.lock_dependencies) =>
            LET T == LastAnalyzed'.event.thread_identifier
                L == unwrap(LastAnalyzed'.event.operand.id)
                held == HeldBy(T)
                known == \E i \in 1..Len(lock_dependencies) :
                            /\ lock_dependencies[i].thread_id = T
                            /\ lock_dependencies[i].lock_id = L
                            /\ lock_dependencies[i].acquired_locks = held
            IN  lock_dependencies' =
                    IF known THEN lock_dependencies
                    ELSE Append(lock_dependencies,
                                [thread_id |-> T, lock_id |-> L, acquired_locks |-> held,
                                 line |-> LastAnalyzed'.row])]_vars
    /\ [][~AcquireStep => lock_dependencies' = lock_dependencies]_vars
    /\ [](\A i \in 1..Len(lock_dependencies) :
            \E k \in 1..Len(analyzed) :
                /\ analyzed[k].row = lock_dependencies[i].line
                /\ analyzed[k].event.operation = "Acquire"
                /\ analyzed[k].event.thread_identifier = lock_dependencies[i].thread_id
                /\ unwrap(analyzed[k].event.operand.id) = lock_dependencies[i].lock_id)

\* a thread acquired a second lock twice while holding the first: the
\* record of the second lock keeps row 2 after the acquire at row 4
C24_Witness ==
    /\ arguments.lock_dependencies
    /\ Len(analyzed) = 4
    /\ analyzed[4].event = analyzed[2].event
    /\ analyzed[4].event.operation = "Acquire"
    /\ Len(lock_dependencies) = 2
    /\ lock_dependencies[2].line = 2
    /\ lock_dependencies[2].acquired_locks # {}
    /\ lock_dependencies[2].acquired_locks = HeldBy(lock_dependencies[2].thread_id)
          \ {lock_dependencies[2].lock_id}

\* the largest element of a non-empty set of rows
MaxRow(rows) == CHOOSE r \in rows : \A q \in rows : q <= r

\* an Acquire of a lock by the thread that holds it reports nothing and
\* stores owner, locked and the row of this acquire
ReacquireOverwritesRow ==
    [][(AcquireStep /\ Holds(LastAnalyzed'.event.thread_identifier,
                             unwrap(LastAnalyzed'.event.operand.id))) =>
          LET T == LastAnalyzed'.event.thread_identifier
              L == unwrap(LastAnalyzed'.event.operand.id)
          IN  /\ errors' = errors
              /\ locks' = [locks EXCEPT ![L] = [owner |-> Some(T), locked |-> TRUE,
                                                row |-> LastAnalyzed'.row]]]_vars

\* this step reported a RepeatedRelease
RepeatedReleaseStep ==
    /\ ReleaseStep
    /\ errors' # errors
    /\ errors'[Len(errors')].kind = "RepeatedRelease"

\* the rows of the Release events on lock l analyzed so far
ReleaseRows(l) ==
    {analyzed[k].row : k \in {j \in 1..Len(analyzed) :
        /\ analyzed[j].event.operation = "Release"
        /\ unwrap(analyzed[j].event.operand.id) = l}}

\* C25 as stated: an Acquire of L by T at row r while T holds L reports no
\* violation, keeps owner = T and locked = true and overwrites L's row with
\* r, and a later RepeatedRelease on L reports the row of the latest
\* acquire of L as the previous row
C25_Original ==
    /\ ReacquireOverwritesRow
    /\ [][RepeatedReleaseStep =>
            LET L == errors'[Len(errors')].lock_id
            IN  AcquireRows(L) # {} =>
                    errors'[Len(errors')].previous = MaxRow(AcquireRows(L))]_vars

\* C25, amended: an Acquire of L by T at row r while T holds L reports no
\* violation, keeps owner = T and locked = true and overwrites L's row with
\* r; while L stays locked its row is the row of the latest acquire of L by
\* its owner; a RepeatedRelease on L reports the row of an earlier Release
\* of L, never the row of an acquire
C25_ReacquireRowUntilRelease ==
    /\ ReacquireOverwritesRow
    /\ [](\A l \in DOMAIN locks :
            locks[l].locked =>
                locks[l].row = MaxRow({analyzed[k].row : k \in {j \in 1..Len(analyzed) :
                    /\ analyzed[j].event.operation = "Acquire"
                    /\ unwrap(analyzed[j].event.operand.id) = l
                    /\ Some(analyzed[j].event.thread_identifier) = locks[l].owner}}))
    /\ [][RepeatedReleaseStep =>
            LET e == errors'[Len(errors')]
            IN  /\ e.previous \in ReleaseRows(e.lock_id)
                /\ e.previous \notin AcquireRows(e.lock_id)]_vars

\* a thread acquired a lock twice, released it and released it again: the
\* RepeatedRelease at row 4 names row 3, the row of the first release
C25_Witness ==
    /\ Len(analyzed) = 4
    /\ analyzed[1].event.operation = "Acquire"
    /\ analyzed[2].event = analyzed[1].event
    /\ analyzed[3].event.operation = "Release"
    /\ analyzed[4].event = analyzed[3].event
    /\ errors = <<[kind |-> "RepeatedRelease", attempted |-> 4, previous |-> 3,
                   lock_id |-> unwrap(analyzed[1].event.operand.id),
                   thread_id |-> analyzed[1].event.thread_identifier]>>

\* the nodes of the graph: its keys and their children
Nodes(g) == DOMAIN g \cup UNION {g[a] : a \in DOMAIN g}

\* the nodes from which at least one directed cycle is reachable
CycleNodes(g) ==
    {a \in Nodes(g) : \E b \in ReachFrom(g, {a}) \cap DOMAIN g : b \in ReachFrom(g, g[b])}

\* this step is a launch of the search that was counted
CountedLaunch == pc = "validate" /\ found_deadlocks' # found_deadlocks

\* C26: every contains_cycle call clears its node's on-stack bit when it
\* returns, so whenever a top-level launch starts (and when the loop is
\* over) no node is marked on-stack
C26_NoNodeOnStackBetweenLaunches ==
    pc \in {"validate", "validated"} =>
        \A n \in DOMAIN recursion_stack : ~recursion_stack[n]

\* C27 as stated: the count returned equals the number of graph nodes from
\* which at least one directed cycle is reachable
C27_Original ==
    pc = "validated" => found_deadlocks = Cardinality(CycleNodes(graph))

\* C27: the count returned is the number of launches that returned true;
\* every such launch starts at a key not visited before from which a
\* directed cycle is reachable, so the count is at most the number of keys
\* from which a cycle is reachable, and it can be less
C27_CountsLaunchesNotNodes ==
    /\ [][CountedLaunch =>
            /\ found_deadlocks' = found_deadlocks + 1
            /\ \E node \in keys_left \ keys_left' :
                  /\ node \notin DOMAIN visited
                  /\ node \in CycleNodes(graph)]_vars
    /\ [](found_deadlocks <= Cardinality(CycleNodes(graph) \cap DOMAIN graph))

\* the search is over for the graph 1 -> 2 -> 1: a cycle is reachable from
\* both nodes, one launch was counted
C27_Witness ==
    /\ pc = "validated"
    /\ DOMAIN graph = {1, 2}
    /\ graph[1] = {2}
    /\ graph[2] = {1}
    /\ found_deadlocks = 1

\* C28: the count returned is the same for every order of the launches and
\* of the children: the run's count is the only one the graph can give
C28_CountIsFunctionOfGraph ==
    pc = "validated" => validate_dependency_graph(graph) = {found_deadlocks}

\* C29: validate_dependency_graph returns for every graph, contains_cycle
\* is entered at most once per node over the whole run, and the count never
\* exceeds the number of nodes with outgoing edges
C29_SearchTerminates ==
    /\ [](\A n \in DOMAIN entered : entered[n] <= 1)
    /\ [](DOMAIN entered = DOMAIN visited)
    /\ [](found_deadlocks <= Cardinality({a \in DOMAIN graph : graph[a] # {}}))
    /\ <>(pc = "validated")

\* the function returned after contains_cycle was entered for all three
\* nodes, and counted as many launches as there are nodes with edges
C29_Witness ==
    /\ pc = "validated"
    /\ DOMAIN entered = GraphNodes
    /\ found_deadlocks = 2
    /\ Cardinality({a \in DOMAIN graph : graph[a] # {}}) = 2

\* C30: every event given to analyze_event by either decoder carries the
\* operand type of its operation: a lock for Acquire, Release and Request,
\* a memory location for Read and Write, a thread for Fork and Join, none
\* for Begin, End and Branch; so the id of an Acquire or a Release is that
\* of a LockIdentifier operand
C30_OperandTagMatchesOperation ==
    \A k \in 1..Len(analyzed) :
        analyzed[k].event.operand.tag = OperandTagOf(analyzed[k].event.operation)

\* C31: with the graph flag off the edge set is empty after every event,
\* and with the lock-dependencies flag off the dependency list is empty
\* after every event
C31_DisabledFlagsCollectNothing ==
    /\ ~arguments.graph => lockgraph = {} /\ graphviz_locks = {}
    /\ ~arguments.lock_dependencies => lock_dependencies = <<>>

\* with both flags off a thread acquired a second lock while holding one:
\* the acquire that would have given an edge and a dependency on a held lock
C31_Witness ==
    /\ ~arguments.graph
    /\ ~arguments.lock_dependencies
    /\ Len(analyzed) >= 2
    /\ \E t \in Threads : Cardinality(HeldBy(t)) = 2

\* the four combinations of the graph and lock-dependencies flags
FlagCombinations ==
    {[arguments EXCEPT !.graph = g, !.lock_dependencies = d] : g, d \in BOOLEAN}

\* the lock map and the violations after the events evs[i..], each analyzed
\* at its row under the flags args
RECURSIVE WellFormedness(_, _, _, _, _, _, _)
WellFormedness(args, evs, i, errs, lockmap, graphviz, deps) ==
    IF i > Len(evs) THEN [locks |-> lockmap, errors |-> errs]
    ELSE LET a == analyze_event(args, evs[i].event, lockmap, evs[i].row, graphviz, deps)
         IN  WellFormedness(args, evs, i + 1, PushResult(errs, a.result), a.locks,
                            a.graphviz, a.lock_dependencies)

\* the violations among the errors, in their order
IsViolation(e) == e.kind \in ViolationKinds
Violations(errs) == SelectSeq(errs, IsViolation)

\* C32: after every event the lock map and the violations recorded are the
\* ones the same events give under each of the four combinations of the
\* graph and lock-dependencies flags
C32_FlagsDoNotChangeWellFormedness ==
    \A args \in FlagCombinations :
        LET w == WellFormedness(args, analyzed, 1, <<>>, <<>>, {}, <<>>)
        IN  /\ w.locks = locks
            /\ w.errors = Violations(errors)

\* with both flags on, an edge and a dependency were collected and an
\* acquire of a held lock by another thread was rejected
C32_Witness ==
    /\ arguments.graph
    /\ arguments.lock_dependencies
    /\ lockgraph # {}
    /\ Len(lock_dependencies) >= 2
    /\ \E i \in 1..Len(errors) : errors[i].kind = "RepeatedAcquisition"

\* C33: normalize_tokens leaves a line with a typed operand as it is, and
\* normalizing twice gives the same tokens as normalizing once, for every
\* well-formed event line, its operand typed or a bare integer
C33_NormalizeIdempotent ==
    [][(LineStep /\ arguments.normalize /\ ~unwrap(std_line').io
            /\ (Matches(unwrap(std_line').source)
                   \/ IsBareLine(unwrap(std_line').source))) =>
          LET tokens == unwrap(std_line').source
              once == normalize_tokens(tokens)
          IN  /\ ~once.panic
              /\ Matches(tokens) => once.tokens = tokens /\ EventStep
              /\ normalize_tokens(once.tokens) = once]_vars

\* C34: with normalization enabled no line of tokens aborts the run:
\* normalize_tokens returns a token sequence, and a line that is no event
\* is recorded as one decode error that ends the stream
C34_NormalizerNeverAborts ==
    [][(LineStep /\ arguments.normalize /\ ~unwrap(std_line').io
            /\ LexOk(unwrap(std_line').source)) =>
          /\ ~normalize_tokens(unwrap(std_line').source).panic
          /\ pc' \in {"std", "post"}
          /\ ~EventStep =>
                /\ pc' = "post"
                /\ Len(errors') = Len(errors) + 1
                /\ errors'[Len(errors')].kind = "ParserError"]_vars

====
